---------------------------- MODULE Spec2Model ----------------------------
(***************************************************************************)
(* Model of src/Solution/main.py: the merit-order production planner       *)
(* (calculate_cost_per_mwh, calculate_actual_pmax,                         *)
(* calculate_production_plan) and the request handler production_plan.     *)
(*                                                                         *)
(* Numbers.  Every power quantity (load, pmin, pmax, power,                *)
(* remaining_load) is an exact decimal held as an integer number of        *)
(* hundredths of a MW, so 0.1 MW is 10 and round(x, 1) is rounding to a    *)
(* multiple of 10.  Efficiency is held in percent (0.5 is 50).  A cost is  *)
(* an exact fraction [num, den]; float('inf') is the fraction 1/0.  The    *)
(* arithmetic is exact: binary floating point error is not modelled.       *)
(***************************************************************************)
EXTENDS Integers, Sequences, FiniteSets

VARIABLES
    load,            \* request.load
    fuels,           \* request.fuels
    powerplants,     \* request.powerplants; a plant's name is its position
    plants_data,     \* the working list of calculate_production_plan
    remaining_load,  \* local of calculate_production_plan
    idx,             \* position of the running for loop in plants_data
    excess,          \* local of the corrective pass (-1: not yet assigned)
    result,          \* the list calculate_production_plan returns
    raised,          \* what the try block of production_plan raised
    response,        \* what the client receives
    pc               \* position in the handler

vars == <<load, fuels, powerplants, plants_data, remaining_load, idx, excess,
          result, raised, response, pc>>

-----------------------------------------------------------------------------
(* Bounds and input sets *)

MaxUnits == 3

\* 0.1 MW, the tolerance of lines 115, 123, 146, 162 and 205.
Tolerance == 10

Loads == {6, 16, 24, 36, 50, 52}

FuelsSet ==
    { [gas_euro_mwh |-> g[1], co2_euro_ton |-> g[2], kerosine_euro_mwh |-> g[3],
       wind_percent |-> w] :
         g \in { <<3, 10, 6>>, <<0, 0, 12>> }, w \in {0, 50, 100} }

PowerPlantSet ==
    { [type |-> "windturbine", efficiency |-> 100, pmin |-> 0,  pmax |-> 40],
      [type |-> "windturbine", efficiency |-> 100, pmin |-> 30, pmax |-> 40],
      [type |-> "gasfired",    efficiency |-> 50,  pmin |-> 30, pmax |-> 60],
      [type |-> "gasfired",    efficiency |-> 100, pmin |-> 0,  pmax |-> 14],
      [type |-> "gasfired",    efficiency |-> 100, pmin |-> 0,  pmax |-> 8],
      [type |-> "turbojet",    efficiency |-> 100, pmin |-> 0,  pmax |-> 20],
      [type |-> "turbojet",    efficiency |-> 0,   pmin |-> 0,  pmax |-> 20],
      [type |-> "nuclear",     efficiency |-> 100, pmin |-> 0,  pmax |-> 20] }

-----------------------------------------------------------------------------
(* Arithmetic *)

Abs(x) == IF x < 0 THEN -x ELSE x

Min(a, b) == IF a <= b THEN a ELSE b

\* round(x, 1) of a non-negative x: to the nearest multiple of 0.1, an exact
\* tie going to the even multiple (Python 3's round).
Round1(x) ==
    LET q == x \div Tolerance
        r == x % Tolerance
    IN  IF 2 * r < Tolerance THEN Tolerance * q
        ELSE IF 2 * r > Tolerance THEN Tolerance * (q + 1)
        ELSE IF q % 2 = 0 THEN Tolerance * q ELSE Tolerance * (q + 1)

RECURSIVE SumPower(_)
SumPower(s) == IF s = <<>> THEN 0 ELSE Head(s).power + SumPower(Tail(s))

RECURSIVE SumP(_)
SumP(s) == IF s = <<>> THEN 0 ELSE Head(s).p + SumP(Tail(s))

-----------------------------------------------------------------------------
(* calculate_cost_per_mwh and calculate_actual_pmax *)

\* The division by plant.efficiency raises ZeroDivisionError.
CostRaises(plant) ==
    plant.type \in {"gasfired", "turbojet"} /\ plant.efficiency = 0

\* fuel_cost + co2_cost = gas/eff + 0.3*co2/eff, with eff = efficiency/100.
calculate_cost_per_mwh(plant, f) ==
    IF plant.type = "windturbine" THEN [num |-> 0, den |-> 1]
    ELSE IF plant.type = "gasfired"
      THEN [num |-> 10 * (10 * f.gas_euro_mwh + 3 * f.co2_euro_ton),
            den |-> plant.efficiency]
    ELSE IF plant.type = "turbojet"
      THEN [num |-> 100 * f.kerosine_euro_mwh, den |-> plant.efficiency]
    ELSE [num |-> 1, den |-> 0]

calculate_actual_pmax(plant, f) ==
    IF plant.type = "windturbine"
      THEN (plant.pmax * f.wind_percent) \div 100
      ELSE plant.pmax

CostLess(a, b) == a.num * b.den < b.num * a.den

CostEq(a, b) == a.num * b.den = b.num * a.den

-----------------------------------------------------------------------------
(* Steps 1 and 2 of calculate_production_plan *)

NewPlantsData(pp, f) ==
    [i \in 1..Len(pp) |->
        [name |-> i, pmin |-> pp[i].pmin,
         cost |-> calculate_cost_per_mwh(pp[i], f),
         actual_pmax |-> calculate_actual_pmax(pp[i], f),
         power |-> 0]]

\* The sort key with the most expensive plant first.
KeyLessCostDescending(x, y) ==
    \/ CostLess(y.cost, x.cost)
    \/ CostEq(x.cost, y.cost) /\ -x.actual_pmax < -y.actual_pmax

\* The sort key without the minus sign of its second component.
KeyLessSmallerFirst(x, y) ==
    \/ CostLess(x.cost, y.cost)
    \/ CostEq(x.cost, y.cost) /\ x.actual_pmax < y.actual_pmax

\* The order of the sort key (x['cost'], -x['actual_pmax']).
KeyLess(x, y) ==
    \/ CostLess(x.cost, y.cost)
    \/ CostEq(x.cost, y.cost) /\ -x.actual_pmax < -y.actual_pmax

\* list.sort is stable: entries with equal keys keep their order.
SortRank(data, i) ==
    1 + Cardinality({ j \in 1..Len(data) :
                        \/ KeyLess(data[j], data[i])
                        \/ ~KeyLess(data[i], data[j]) /\ j < i })

SortByMerit(data) ==
    [k \in 1..Len(data) |->
        data[CHOOSE i \in 1..Len(data) : SortRank(data, i) = k]]

-----------------------------------------------------------------------------
(* Step 3: the body of the greedy loop, lines 118-142 *)

\* Line 138 without its capacity test.
ForceCommitIgnoringCapacity(rem, pmin, cap) == rem > 0

\* Line 138: the plant must run at Pmin although less is needed.
CanForceCommit(rem, pmin, cap) == rem > 0 /\ cap >= pmin

\* Lines 127-142 with the forced commitment taking only what was needed
\* from remaining_load.
GreedyAllocationClamped(e, rem) ==
    IF rem >= e.pmin \/ (rem > 0 /\ e.pmin = 0)
      THEN [power |-> Min(rem, e.actual_pmax),
            remaining_load |-> rem - Min(rem, e.actual_pmax)]
    ELSE IF CanForceCommit(rem, e.pmin, e.actual_pmax)
      THEN [power |-> e.pmin, remaining_load |-> rem - Min(rem, e.pmin)]
    ELSE [power |-> e.power, remaining_load |-> rem]

\* Lines 127-142: the power given to entry e and the remaining load after it.
GreedyAllocation(e, rem) ==
    IF rem >= e.pmin
      THEN [power |-> Min(rem, e.actual_pmax),
            remaining_load |-> rem - Min(rem, e.actual_pmax)]
    ELSE IF rem > 0 /\ e.pmin = 0
      THEN [power |-> Min(rem, e.actual_pmax),
            remaining_load |-> rem - Min(rem, e.actual_pmax)]
    ELSE IF CanForceCommit(rem, e.pmin, e.actual_pmax)
      THEN [power |-> e.pmin, remaining_load |-> rem - e.pmin]
    ELSE [power |-> e.power, remaining_load |-> rem]

-----------------------------------------------------------------------------
(* Step 4: the body of the corrective loop, lines 148-163 *)

\* Lines 152-156 switching the plant off instead of trimming it.
CorrectEntrySwitchOff(e, rem) ==
    IF e.power - Abs(rem) >= e.pmin
      THEN [power |-> 0, remaining_load |-> 0, excess |-> Abs(rem),
            brk |-> TRUE]
    ELSE IF e.pmin = 0
      THEN [power |-> e.power - Min(e.power, Abs(rem)),
            remaining_load |-> rem + Min(e.power, Abs(rem)),
            excess |-> Abs(rem),
            brk |-> Abs(rem + Min(e.power, Abs(rem))) < Tolerance]
    ELSE [power |-> e.power, remaining_load |-> rem, excess |-> Abs(rem),
          brk |-> FALSE]

\* Lines 149-163, for an entry with power > 0: its new power, the remaining
\* load, the local excess and whether the loop breaks.
CorrectEntry(e, rem) ==
    LET exc == Abs(rem)
    IN  IF e.power - exc >= e.pmin
          THEN [power |-> e.power - exc, remaining_load |-> 0,
                excess |-> exc, brk |-> TRUE]
        ELSE IF e.pmin = 0
          THEN LET reduction == Min(e.power, exc)
               IN  [power |-> e.power - reduction,
                    remaining_load |-> rem + reduction,
                    excess |-> exc,
                    brk |-> Abs(rem + reduction) < Tolerance]
        ELSE [power |-> e.power, remaining_load |-> rem, excess |-> exc,
              brk |-> FALSE]

-----------------------------------------------------------------------------
(* Step 5 and the handler *)

\* Lines 166-173: one output per entry of plants_data, in its order.
FormatResult(data) ==
    [k \in 1..Len(data) |-> [name |-> data[k].name, p |-> Round1(data[k].power)]]

\* Line 205 without abs().
LoadMismatchSigned(total_production, ld) == total_production - ld > Tolerance

\* Line 205.
LoadMismatch(total_production, ld) == Abs(total_production - ld) > Tolerance

NoResponse == [status_code |-> 0, body |-> <<>>]

\* Lines 213-217: except Exception catches whatever the try block raised,
\* the HTTPException of line 206 included, and raises status 500.
ExceptHandler(exc) == [status_code |-> 500, body |-> <<>>]

-----------------------------------------------------------------------------
(* The state machine *)

Init ==
    /\ load \in Loads
    /\ fuels \in FuelsSet
    /\ powerplants \in UNION { [1..n -> PowerPlantSet] : n \in 0..MaxUnits }
    /\ plants_data = <<>>
    /\ remaining_load = 0
    /\ idx = 0
    /\ excess = -1
    /\ result = <<>>
    /\ raised = "none"
    /\ response = NoResponse
    /\ pc = "request"

\* Lines 96-112: build plants_data, sort it, start the greedy loop.
BuildPlantsData ==
    /\ pc = "request"
    /\ \A i \in 1..Len(powerplants) : ~CostRaises(powerplants[i])
    /\ plants_data' = SortByMerit(NewPlantsData(powerplants, fuels))
    /\ remaining_load' = load
    /\ idx' = 1
    /\ pc' = "greedy"
    /\ UNCHANGED <<load, fuels, powerplants, excess, result, raised, response>>

\* Lines 98, 61, 67 and 213-217: a division by a zero efficiency.
BuildRaises ==
    /\ pc = "request"
    /\ \E i \in 1..Len(powerplants) : CostRaises(powerplants[i])
    /\ raised' = "ZeroDivisionError"
    /\ response' = ExceptHandler("ZeroDivisionError")
    /\ pc' = "done"
    /\ UNCHANGED <<load, fuels, powerplants, plants_data, remaining_load, idx,
                   excess, result>>

\* Lines 114-142: one iteration of the greedy loop that does not break.
GreedyIter ==
    /\ pc = "greedy"
    /\ idx <= Len(plants_data)
    /\ remaining_load > Tolerance
    /\ LET e == plants_data[idx]
           a == GreedyAllocation(e, remaining_load)
       IN  IF e.actual_pmax < Tolerance
             THEN UNCHANGED <<plants_data, remaining_load>>
             ELSE /\ plants_data' = [plants_data EXCEPT ![idx].power = a.power]
                  /\ remaining_load' = a.remaining_load
    /\ idx' = idx + 1
    /\ UNCHANGED <<load, fuels, powerplants, excess, result, raised, response, pc>>

\* Lines 115-116 and 146: the greedy loop ends (break, or list exhausted).
GreedyExit ==
    /\ pc = "greedy"
    /\ idx > Len(plants_data) \/ remaining_load <= Tolerance
    /\ IF remaining_load < -Tolerance
         THEN pc' = "correct" /\ idx' = Len(plants_data)
         ELSE pc' = "format" /\ idx' = idx
    /\ UNCHANGED <<load, fuels, powerplants, plants_data, remaining_load,
                   excess, result, raised, response>>

\* Lines 147-163: one iteration of the reversed loop.
CorrectIter ==
    /\ pc = "correct"
    /\ idx >= 1
    /\ LET e == plants_data[idx]
           c == CorrectEntry(e, remaining_load)
       IN  IF e.power > 0
             THEN /\ plants_data' = [plants_data EXCEPT ![idx].power = c.power]
                  /\ remaining_load' = c.remaining_load
                  /\ excess' = c.excess
                  /\ IF c.brk THEN pc' = "format" /\ idx' = idx
                              ELSE pc' = pc /\ idx' = idx - 1
             ELSE /\ idx' = idx - 1
                  /\ UNCHANGED <<plants_data, remaining_load, excess, pc>>
    /\ UNCHANGED <<load, fuels, powerplants, result, raised, response>>

\* The reversed loop runs out of entries.
CorrectExit ==
    /\ pc = "correct"
    /\ idx = 0
    /\ pc' = "format"
    /\ UNCHANGED <<load, fuels, powerplants, plants_data, remaining_load, idx,
                   excess, result, raised, response>>

\* Lines 165-173.
Format ==
    /\ pc = "format"
    /\ result' = FormatResult(plants_data)
    /\ pc' = "validate"
    /\ UNCHANGED <<load, fuels, powerplants, plants_data, remaining_load, idx,
                   excess, raised, response>>

\* Lines 202-217.
Validate ==
    /\ pc = "validate"
    /\ IF LoadMismatch(SumP(result), load)
         THEN /\ raised' = "HTTPException400"
              /\ response' = ExceptHandler("HTTPException400")
         ELSE /\ raised' = "none"
              /\ response' = [status_code |-> 200, body |-> result]
    /\ pc' = "done"
    /\ UNCHANGED <<load, fuels, powerplants, plants_data, remaining_load, idx,
                   excess, result>>

Next ==
    \/ BuildPlantsData
    \/ BuildRaises
    \/ GreedyIter
    \/ GreedyExit
    \/ CorrectIter
    \/ CorrectExit
    \/ Format
    \/ Validate

Spec == Init /\ [][Next]_vars

-----------------------------------------------------------------------------
(* Vocabulary of the properties *)

\* plants_data has been built and sorted.
Built ==
    \/ pc \in {"greedy", "correct", "format", "validate"}
    \/ pc = "done" /\ raised # "ZeroDivisionError"

\* Both passes are over: plants_data holds the final allocation.
Final ==
    \/ pc \in {"format", "validate"}
    \/ pc = "done" /\ raised # "ZeroDivisionError"

\* calculate_production_plan has returned.
Returned ==
    \/ pc = "validate"
    \/ pc = "done" /\ raised # "ZeroDivisionError"

\* The greedy loop is over and the corrective pass has not begun.
GreedyOver ==
    /\ pc = "greedy"
    /\ idx > Len(plants_data) \/ remaining_load <= Tolerance

Entries == 1..Len(plants_data)

ZeroCost(e) == e.cost.num = 0 /\ e.cost.den > 0

PositiveCost(e) == CostLess([num |-> 0, den |-> 1], e.cost)

RECURSIVE SumActualPmax(_)
SumActualPmax(s) ==
    IF s = <<>> THEN 0 ELSE Head(s).actual_pmax + SumActualPmax(Tail(s))

\* The entry at idx is one the corrective pass settles on its own (line 152).
SingleUnitCase ==
    /\ pc = "correct"
    /\ idx >= 1
    /\ plants_data[idx].power > 0
    /\ plants_data[idx].power - Abs(remaining_load) >= plants_data[idx].pmin

-----------------------------------------------------------------------------
(* C1: production_plan answers with a plan only if the rounded outputs of  *)
(* the plan sum to the load within 0.1; when the sum of the result of      *)
(* calculate_production_plan is further than 0.1 from the load, no plan    *)
(* is returned.                                                            *)
C1_PlanOnlyWithinTolerance ==
    /\ response.status_code = 200 =>
         /\ response.body = result
         /\ Abs(SumP(response.body) - load) <= Tolerance
    /\ (pc = "done" /\ Returned /\ Abs(SumP(result) - load) > Tolerance) =>
         response.status_code # 200

\* A plan is returned whose total is within the tolerance but not the load.
C1_Witness ==
    /\ pc = "done"
    /\ response.status_code = 200
    /\ SumP(response.body) # load

(* C2: the result of calculate_production_plan has one entry per input     *)
(* unit and its i-th entry carries the name of the i-th input unit.        *)
C2_InputOrder ==
    Returned =>
        /\ Len(result) = Len(powerplants)
        /\ \A i \in 1..Len(result) : result[i].name = i

(* C3: when the total of the final allocation is further than 0.1 from the *)
(* load, the client receives the client error (400) raised for it, never   *)
(* the response of an unexpected failure (500).                            *)
C3_InfeasibleIsClientError ==
    (pc = "done" /\ Returned /\ Abs(SumP(result) - load) > Tolerance) =>
        /\ response.status_code = 400
        /\ response.status_code # ExceptHandler("ZeroDivisionError").status_code

(* C4: when every unit has pmin 0, the load is positive and the effective  *)
(* capacities sum to at least the load, the rounded outputs sum to the     *)
(* load within 0.1.                                                        *)
C4_FeasibleWithinTolerance ==
    ( /\ Returned
      /\ load > 0
      /\ \A k \in Entries : plants_data[k].pmin = 0
      /\ SumActualPmax(plants_data) >= load )
    => Abs(SumP(result) - load) <= Tolerance

(* C5: at every step of both passes and in the final allocation, every     *)
(* unit's power is at least 0 and at most its effective capacity.          *)
C5_WithinCapacity ==
    Built => \A k \in Entries :
                /\ 0 <= plants_data[k].power
                /\ plants_data[k].power <= plants_data[k].actual_pmax

\* A unit has been force-committed at its pmin, beyond the load left.
C5_Witness ==
    /\ Built
    /\ remaining_load < 0
    /\ \E k \in Entries : /\ plants_data[k].pmin > 0
                          /\ plants_data[k].power = plants_data[k].pmin

(* C6: in the final allocation every unit with power above zero has at     *)
(* least its pmin; a unit whose effective capacity is below its pmin ends  *)
(* with power 0.                                                           *)
C6_AtLeastPmin ==
    Final => \A k \in Entries :
                /\ plants_data[k].power > 0 =>
                       plants_data[k].power >= plants_data[k].pmin
                /\ plants_data[k].actual_pmax < plants_data[k].pmin =>
                       plants_data[k].power = 0

(* C7: zero-cost units come before positive-cost units in the greedy pass, *)
(* and at its end, if a positive-cost unit has power, every zero-cost unit *)
(* with pmin 0 and effective capacity of at least 0.1 has its full         *)
(* effective capacity.                                                     *)
C7_MeritOrder ==
    /\ Built => \A i, j \in Entries :
                   (i < j /\ ZeroCost(plants_data[j])) =>
                       ~PositiveCost(plants_data[i])
    /\ GreedyOver => \A a, b \in Entries :
          ( /\ PositiveCost(plants_data[a])
            /\ plants_data[a].power # 0
            /\ ZeroCost(plants_data[b])
            /\ plants_data[b].pmin = 0
            /\ plants_data[b].actual_pmax >= Tolerance )
          => plants_data[b].power = plants_data[b].actual_pmax

\* The greedy pass ended with power on a positive-cost unit, after a
\* zero-cost unit of pmin 0 and usable capacity.
C7_Witness ==
    /\ GreedyOver
    /\ \E a, b \in Entries :
          /\ PositiveCost(plants_data[a])
          /\ plants_data[a].power # 0
          /\ ZeroCost(plants_data[b])
          /\ plants_data[b].pmin = 0
          /\ plants_data[b].actual_pmax >= Tolerance

(* C8: of two units with equal cost, pmin 0 and different effective        *)
(* capacities of at least 0.1, the larger is ranked first, and in the      *)
(* final allocation the smaller has power only if the larger has its full  *)
(* effective capacity.                                                     *)
C8_LargerFirst ==
    Final => \A a, b \in Entries :
        ( /\ CostEq(plants_data[a].cost, plants_data[b].cost)
          /\ plants_data[a].pmin = 0 /\ plants_data[b].pmin = 0
          /\ plants_data[b].actual_pmax >= Tolerance
          /\ plants_data[a].actual_pmax > plants_data[b].actual_pmax )
        => /\ a < b
           /\ plants_data[b].power # 0 =>
                  plants_data[a].power = plants_data[a].actual_pmax

\* After a corrective pass the smaller of two such units still has power.
C8_Witness ==
    /\ Final
    /\ excess # -1
    /\ \E a, b \in Entries :
          /\ CostEq(plants_data[a].cost, plants_data[b].cost)
          /\ plants_data[a].pmin = 0 /\ plants_data[b].pmin = 0
          /\ plants_data[b].actual_pmax >= Tolerance
          /\ plants_data[a].actual_pmax > plants_data[b].actual_pmax
          /\ plants_data[b].power # 0

(* C9: when the reverse walk reaches an entry with power whose power minus *)
(* the excess is at least its pmin, that entry loses exactly the excess,   *)
(* the remaining load becomes 0, the walk stops, every other entry keeps   *)
(* its power and the powers sum to the load.                               *)
C9_SingleUnitCorrection ==
    [][ SingleUnitCase =>
          /\ plants_data'[idx].power =
                 plants_data[idx].power - Abs(remaining_load)
          /\ remaining_load' = 0
          /\ pc' = "format"
          /\ \A k \in Entries : k # idx => plants_data'[k] = plants_data[k]
          /\ SumPower(plants_data') = load ]_vars

\* The walk has stopped on a single-unit correction: only line 155 leaves
\* the remaining load at 0 with excess assigned.
C9_Witness ==
    /\ pc = "format"
    /\ excess > Tolerance
    /\ remaining_load = 0
    /\ plants_data[idx].power > 0

====
